---- MODULE Spec2Model ----
(***************************************************************************)
(* State-machine model of the ecs registry: entity_pool (entity.hpp),      *)
(* mem_block (mem_block.hpp), archetype / archetype_registry               *)
(* (archetype.hpp) and registry (registry.hpp).                            *)
(*                                                                         *)
(* Indices are 0-based as in the source; At(s, i) reads a std::vector.     *)
(* An archetype pointer is modelled by the component set that keys the     *)
(* archetype in archetype_registry::archetypes_ (the owned node never      *)
(* moves, so key and pointer name the same object).                        *)
(***************************************************************************)
EXTENDS Integers, Sequences, FiniteSets, TLC

\* ------------------------------------------------------------------ bounds
\* Number of distinct ids entity_pool may hand out (caps next_id_).
MaxIds == 2
\* Largest generation a handle returned by create may carry (caps reuse).
MaxGen == 1

\* ------------------------------------------------------- program constants
mem_block_size == 16384
alloc_alignment == 4
\* sizeof(T) * CHAR_BIT for the bitset's word type T = std::uint64_t
bits_per_block == 64
\* std::numeric_limits<uint32_t>::max() is 4294967295; the model checker's integers
\* are 32-bit signed, so the largest representable value stands for it.  The
\* only use of the value is the comparison e.id() < generations_.size().
invalid_id == 2147483647
invalid_generation == 2147483647

\* ------------------------------------------------------------ input domains
\* sizeof / alignof of class entity (two uint32_t members).
EntityMeta == [size |-> 8, align |-> 4]

\* User component types, as a program using the library declares them
\* (main.cpp declares s1, s2, s3 the same way).  Sizes are chosen so that
\* blocks hold one or two entities and one type does not fit a block:
\*   {A} -> max_size 2,  {A,B} -> max_size 1,
\*   any set with H -> "Mem block too small for component size".
ComponentTypes == [A |-> [size |-> 8000,  align |-> 8],
                   B |-> [size |-> 6000,  align |-> 4],
                   H |-> [size |-> 20000, align |-> 8]]

ComponentNames == DOMAIN ComponentTypes

\* Values a component can hold.
Values == {"x", "y"}

\* Template parameter packs passed to registry::create<Args...>.
Packs == {<<"A">>, <<"A", "B">>, <<"B", "A">>, <<"H">>}

\* ----------------------------------------------------------------- helpers
At(s, i) == s[i + 1]

Back(s) == s[Len(s)]

PopBack(s) == SubSeq(s, 1, Len(s) - 1)

Range(s) == {s[i] : i \in 1..Len(s)}

Put(s, i, v) == [s EXCEPT ![i + 1] = v]

RECURSIVE SumSeq(_)
SumSeq(s) == IF s = <<>> THEN 0 ELSE s[1] + SumSeq(Tail(s))

\* ------------------------------------------------------------------- state
VARIABLES
    next_id,        \* entity_pool::next_id_
    generations,    \* entity_pool::generations_
    freed_ids,      \* entity_pool::freed_ids_
    archetypes,     \* archetype_registry::archetypes_ : component set -> archetype
    entity_map,     \* registry::entity_map_ : id -> entity_location
    status,         \* "running", or how the process left defined behaviour
    last,           \* the last call: operation, arguments, outcome
    issued,         \* history: handles returned by create, not yet destroyed
    written,        \* history: issued handle -> component -> last value written
    lhs,            \* a component_set object of the caller
    rhs,            \* another component_set object of the caller
    meta_set,       \* a component_meta_set object of the caller
    returned        \* history: handles returned by a pool used on its own, oldest first

vars == <<next_id, generations, freed_ids, archetypes, entity_map, status, last,
          issued, written, lhs, rhs, meta_set, returned>>

sets == <<lhs, rhs>>

objects == <<lhs, rhs, meta_set, returned>>

pool == <<next_id, generations, freed_ids>>

store == <<archetypes, entity_map>>

\* class entity
Entity(i, g) == [id |-> i, generation |-> g]

invalid == Entity(invalid_id, invalid_generation)

\* std::optional<entity>: std::nullopt
nullopt == Entity(-1, -1)

\* ------------------------------------------------------------- entity_pool
\* entity_pool::alive
pool_alive(gens, e) ==
    IF e.id < Len(gens) THEN At(gens, e.id) = e.generation ELSE FALSE

\* pool_create returning a reused id with the default generation 0
pool_create_gen0(nid, gens, freed) ==
    IF freed # <<>>
    THEN [ent |-> Entity(Back(freed), 0),
          next_id |-> nid, generations |-> gens, freed_ids |-> PopBack(freed)]
    ELSE [ent |-> Entity(nid, 0),
          next_id |-> nid + 1, generations |-> Append(gens, 0), freed_ids |-> freed]

\* pool_create taking the oldest freed id instead of the newest
pool_create_fifo(nid, gens, freed) ==
    IF freed # <<>>
    THEN [ent |-> Entity(Head(freed), At(gens, Head(freed))),
          next_id |-> nid, generations |-> gens, freed_ids |-> Tail(freed)]
    ELSE [ent |-> Entity(nid, 0),
          next_id |-> nid + 1, generations |-> Append(gens, 0), freed_ids |-> freed]

\* entity_pool::create : the handle returned and the pool it leaves
pool_create(nid, gens, freed) ==
    IF freed # <<>>
    THEN LET id == Back(freed)
         IN  [ent |-> Entity(id, At(gens, id)),
              next_id |-> nid, generations |-> gens, freed_ids |-> PopBack(freed)]
    ELSE [ent |-> Entity(nid, 0),
          next_id |-> nid + 1, generations |-> Append(gens, 0), freed_ids |-> freed]

\* generation_id_t is uint32_t: += 1 wraps at the largest value
u32_inc(g) == IF g = invalid_generation THEN 0 ELSE g + 1

\* recycle checking the id's range but not the generation
pool_recycle_ignores_generation(gens, freed, e) ==
    IF ~(e.id < Len(gens))
    THEN [generations |-> gens, freed_ids |-> freed]
    ELSE [generations |-> Put(gens, e.id, u32_inc(At(gens, e.id))),
          freed_ids |-> Append(freed, e.id)]

\* entity_pool::recycle
pool_recycle(gens, freed, e) ==
    IF ~pool_alive(gens, e)
    THEN [generations |-> gens, freed_ids |-> freed]
    ELSE [generations |-> Put(gens, e.id, u32_inc(At(gens, e.id))),
          freed_ids |-> Append(freed, e.id)]

\* --------------------------------------------------------------- mem_block
\* A block is its capacity, its count of live entries and the live entries of
\* its buffer: slot i holds the entity array's element i and, per component of
\* the layout, that component array's element i.  Bytes of dead slots are not
\* part of the state (reading them is a read of indeterminate memory).
mem_block(max) == [max_size |-> max, number_of_elements |-> 0, slots |-> <<>>]

size(mb) == mb.number_of_elements

full(mb) == size(mb) = mb.max_size

empty(mb) == size(mb) = 0

\* emplace_back constructing the new entry in slot 0, ahead of the live ones
mem_block_emplace_front(mb, ent, data) ==
    [mb EXCEPT !.slots = <<[entity |-> ent, data |-> data]>> \o @,
               !.number_of_elements = @ + 1]

\* mem_block::emplace_back
mem_block_emplace_back(mb, ent, data) ==
    [mb EXCEPT !.slots = Append(@, [entity |-> ent, data |-> data]),
               !.number_of_elements = @ + 1]

\* mem_block::delete_last_entity (number_of_elements_-- ; destroy_at).  With
\* NDEBUG the assert is compiled out and 0 - 1 is the wrapped size_t.
delete_last_entity(mb) ==
    [mb EXCEPT !.number_of_elements = @ - 1, !.slots = PopBack(@)]

\* mem_block::erase_and_fill(index, other), called on mem_blocks[bi] with
\* other = mem_blocks.back() (the two may be the same object).  `wild` is what
\* the reads of other's slot size()-1 return when other is empty.
mem_block_erase_and_fill(blocks, bi, index, wild) ==
    LET this  == At(blocks, bi)
        oi    == Len(blocks) - 1
        other == Back(blocks)
    IN  IF this.number_of_elements = 1 \/ index = this.number_of_elements - 1
        THEN [mem_blocks |-> Put(blocks, bi, delete_last_entity(this)),
              moved |-> nullopt, assert_failed |-> FALSE]
        ELSE LET src    == IF empty(other) THEN wild
                           ELSE At(other.slots, size(other) - 1)
                 filled == Put(blocks, bi, [this EXCEPT !.slots = Put(@, index, src)])
             IN  [mem_blocks |-> Put(filled, oi, delete_last_entity(At(filled, oi))),
                  moved |-> src.entity, assert_failed |-> empty(other)]

\* --------------------------------------------------------------- archetype
\* Padding that rounds value up to a multiple of divisor (a power of two).
mod_2n(value, divisor) == (divisor - (value % divisor)) % divisor

RECURSIVE add_elements(_, _)
\* archetype::aligned_components_size : the add_elements lambda, folded over
\* [entity, C1, C2, ...]
add_elements(end, metas) ==
    IF metas = <<>> THEN end
    ELSE add_elements(end + mod_2n(end, Head(metas).align) + Head(metas).size,
                      Tail(metas))

\* component_meta::of<entity>() and component_meta_set::create<Args...>() :
\* the metas in the order of the template pack
EntityComponentMeta == [id |-> "entity", type |-> EntityMeta]

Metas(pack) == [i \in 1..Len(pack) |-> [id |-> pack[i], type |-> ComponentTypes[pack[i]]]]


Types(metas) == [i \in 1..Len(metas) |-> metas[i].type]

aligned_components_size(metas) ==
    add_elements(alloc_alignment, <<EntityMeta>> \o Types(metas)) - alloc_alignment

packed_components_size(metas) ==
    EntityMeta.size + SumSeq([i \in 1..Len(metas) |-> metas[i].type.size])

\* archetype::get_max_size : throws std::overflow_error when one entity does
\* not fit a block
get_max_size_throws(metas) == aligned_components_size(metas) > mem_block_size

\* get_max_size returning remaining_elements_count itself
get_max_size_without_first_slot(metas) ==
    (mem_block_size - aligned_components_size(metas)) \div packed_components_size(metas)

get_max_size(metas) ==
    ((mem_block_size - aligned_components_size(metas)) \div packed_components_size(metas)) + 1

RECURSIVE add_component_sections(_, _, _, _)
\* archetype::init_component_sections / add_component_section : the layout
\* map mem_blocks_info_, component id -> block_metadata
add_component_sections(info, offset, metas, max) ==
    IF metas = <<>> THEN info
    ELSE LET meta == Head(metas).type
         IN  add_component_sections(
                 info @@ (Head(metas).id :> [offset |-> offset, meta |-> meta]),
                 offset + mod_2n(offset, meta.align) + max * meta.size,
                 Tail(metas), max)

init_component_sections(metas, max) ==
    add_component_sections(<<>>, 0, <<EntityComponentMeta>> \o metas, max)

\* std::unique_ptr<archetype>{} as operator[] default-constructs it
nullptr == [components |-> <<>>, max_size |-> 0, mem_blocks |-> <<>>,
            mem_blocks_info |-> <<>>]

\* archetype::archetype(component_meta_set)
archetype(pack) ==
    [components |-> pack,
     max_size |-> get_max_size(Metas(pack)),
     mem_blocks |-> <<mem_block(get_max_size(Metas(pack)))>>,
     mem_blocks_info |-> init_component_sections(Metas(pack), get_max_size(Metas(pack)))]

\* ensure_free_mem_block allocating whenever the last block holds an entity
ensure_free_mem_block_when_not_empty(arch) ==
    IF empty(Back(arch.mem_blocks)) THEN arch
    ELSE [arch EXCEPT !.mem_blocks = Append(@, mem_block(arch.max_size))]

\* archetype::ensure_free_mem_block
ensure_free_mem_block(arch) ==
    IF ~full(Back(arch.mem_blocks)) THEN arch
    ELSE [arch EXCEPT !.mem_blocks = Append(@, mem_block(arch.max_size))]

\* entity_location
Location(a, b, i) == [archetype |-> a, mem_block_index |-> b, entry_index |-> i]

\* archetype::emplace_back, for the archetype stored under key
archetype_emplace_back(key, arch, ent, data) ==
    LET a1 == ensure_free_mem_block(arch)
        entry_index == size(Back(a1.mem_blocks))
        mem_block_index == Len(a1.mem_blocks) - 1
    IN  [archetype |-> [a1 EXCEPT !.mem_blocks =
                           Put(@, mem_block_index,
                               mem_block_emplace_back(Back(a1.mem_blocks), ent, data))],
         location |-> Location(key, mem_block_index, entry_index)]

\* archetype::erase_and_fill
archetype_erase_and_fill(arch, loc, wild) ==
    LET r == mem_block_erase_and_fill(arch.mem_blocks, loc.mem_block_index,
                                      loc.entry_index, wild)
    IN  [archetype |-> [arch EXCEPT !.mem_blocks =
                           IF empty(Back(r.mem_blocks)) /\ Len(r.mem_blocks) > 1
                           THEN PopBack(r.mem_blocks) ELSE r.mem_blocks],
         moved |-> r.moved, assert_failed |-> r.assert_failed]

\* archetype::contains(component_id)
archetype_contains(arch, c) ==
    IF c = "entity" THEN TRUE ELSE c \in Range(arch.components)

\* ---------------------------------------------------------- dynamic_bitset
\* A word of the bitset (T = std::uint64_t) is written as the set of its 1
\* bits, so | is union, ^ is symmetric difference and !w is w = {}.
block_and_bit(pos) ==
    [block_index |-> pos \div bits_per_block, bit_pos |-> pos % bits_per_block]

\* dynamic_bitset::dynamic_bitset(initial_blocks = 1)
dynamic_bitset(initial_blocks) == [i \in 1..initial_blocks |-> {}]

\* std::vector::resize : new words are zero
blocks_resize(blocks, n) ==
    [i \in 1..n |-> IF i <= Len(blocks) THEN blocks[i] ELSE {}]

\* dynamic_bitset::test
bitset_test(blocks, pos) ==
    LET bb == block_and_bit(pos)
    IN  IF bb.block_index < Len(blocks)
        THEN bb.bit_pos \in At(blocks, bb.block_index)
        ELSE FALSE

\* while (!blocks_[i] && i != 0) i--;
RECURSIVE last_nonzero(_, _)
last_nonzero(blocks, i) ==
    IF At(blocks, i) = {} /\ i # 0 THEN last_nonzero(blocks, i - 1) ELSE i

\* set writing the bit into a word of its own at the end of the vector
bitset_set_appends(blocks, pos, value) ==
    IF value THEN Append(blocks, {block_and_bit(pos).bit_pos}) ELSE blocks

\* dynamic_bitset::set(pos, value)
bitset_set(blocks, pos, value) ==
    LET bb    == block_and_bit(pos)
        grown == IF bb.block_index >= Len(blocks)
                 THEN blocks_resize(blocks, bb.block_index + 1) ELSE blocks
    IN  IF value
        THEN Put(grown, bb.block_index, At(grown, bb.block_index) \cup {bb.bit_pos})
        ELSE LET cleared == Put(grown, bb.block_index, At(grown, bb.block_index) \ {bb.bit_pos})
             IN  blocks_resize(cleared, last_nonzero(cleared, Len(cleared) - 1) + 1)

\* dynamic_bitset::clear
bitset_clear(blocks) == <<>>

\* operator== comparing only the words both vectors have
bitset_eq_common_prefix(a, b) ==
    \A i \in 1..(IF Len(a) < Len(b) THEN Len(a) ELSE Len(b)) : a[i] = b[i]

\* dynamic_bitset::operator== : std::equal over both ranges
bitset_eq(a, b) ==
    /\ Len(a) = Len(b)
    /\ \A i \in 1..Len(a) : a[i] = b[i]

\* hash ^= block
xor(v, w) == (v \ w) \cup (w \ v)

\* std::hash<dynamic_bitset> : XOR of the words
RECURSIVE bitset_hash(_)
bitset_hash(blocks) ==
    IF blocks = <<>> THEN {} ELSE xor(blocks[1], bitset_hash(Tail(blocks)))

\* ----------------------------------------------------------- component_set
\* component_id::value<T> : sequential ids handed out by type_registry; the
\* program registers more than 64 component types.
component_id == [A |-> 0, B |-> 1, H |-> 64, c1 |-> 2, c2 |-> 3, c3 |-> 65, c4 |-> 66]

\* Ids of registered component types.
ComponentIds == {0, 1, 64, 65}

\* component_set{} : bitset_{} is one zero word
component_set == dynamic_bitset(1)

component_set_insert(s, id) == bitset_set(s, id, TRUE)

component_set_erase(s, id) == bitset_set(s, id, FALSE)

component_set_clear(s) == bitset_clear(s)

component_set_contains(s, id) == bitset_test(s, id)

component_set_eq(s, t) == bitset_eq(s, t)

\* component_set_hasher
component_set_hasher(s) == bitset_hash(s)

\* (..., tmp_component_set_.insert<Components>()) over the pack, left to right
RECURSIVE insert_all(_, _)
insert_all(s, pack) ==
    IF pack = <<>> THEN s
    ELSE insert_all(component_set_insert(s, component_id[Head(pack)]), Tail(pack))

\* tmp_component_set_ as ensure_archetype<Components...> leaves it
tmp_component_set(pack) == insert_all(component_set_clear(component_set), pack)

\* The component types whose bits a component set holds; an archetype is
\* named by them.
contents(s) == {c \in ComponentNames : component_set_contains(s, component_id[c])}

archetype_key(pack) == contents(tmp_component_set(pack))

\* ------------------------------------------------------ component_meta_set
\* component_meta_set{} : the bitmask component_set_ and the metadata vector
\* components_meta_data_.  A meta names its component type; the bitmask holds
\* the type's component_id.
component_meta_set == [component_set_ |-> component_set, components_meta_data_ |-> <<>>]

\* component_meta_set::contains(id)
component_meta_set_contains(set, id) == component_set_contains(set.component_set_, id)

\* insert without the contains check
component_meta_set_insert_unchecked(set, meta) ==
    [component_set_ |-> component_set_insert(set.component_set_, component_id[meta.id]),
     components_meta_data_ |-> Append(set.components_meta_data_, meta)]

\* component_meta_set::insert(meta)
component_meta_set_insert(set, meta) ==
    IF component_meta_set_contains(set, component_id[meta.id]) THEN set
    ELSE [component_set_ |-> component_set_insert(set.component_set_, component_id[meta.id]),
          components_meta_data_ |-> Append(set.components_meta_data_, meta)]

\* std::erase_if(components_meta_data_, meta.id == id)
erase_if(data, id) ==
    LET keep == {i \in 1..Len(data) : component_id[data[i].id] # id}
        nth(k) == CHOOSE i \in keep : Cardinality({j \in keep : j <= i}) = k
    IN  [k \in 1..Cardinality(keep) |-> data[nth(k)]]

\* component_meta_set::erase(id)
component_meta_set_erase(set, id) ==
    IF ~component_meta_set_contains(set, id) THEN set
    ELSE [component_set_ |-> component_set_erase(set.component_set_, id),
          components_meta_data_ |-> erase_if(set.components_meta_data_, id)]

\* ------------------------------------------------------ archetype_registry
\* archetype_registry::ensure_archetype<Components...> : operator[] inserts a
\* null entry for a new key before the archetype is built
ensure_archetype(archs, pack) ==
    LET key   == archetype_key(pack)
        archs1 == IF key \in DOMAIN archs THEN archs ELSE archs @@ (key :> nullptr)
    IN  IF archs1[key] # nullptr
        THEN [throws |-> FALSE, archetypes |-> archs1]
        ELSE IF get_max_size_throws(Metas(pack))
        THEN [throws |-> TRUE, archetypes |-> archs1]
        ELSE [throws |-> FALSE, archetypes |-> [archs1 EXCEPT ![key] = archetype(pack)]]

\* archetype_registry::size
archetype_registry_size(archs) == Cardinality(DOMAIN archs)

\* ---------------------------------------------------------------- registry
\* registry::alive
alive(e) == pool_alive(generations, e)

\* ensure_alive checking the id's range but not the generation
ensure_alive_ignores_generation(e) == ~(e.id < Len(generations))

\* registry::ensure_alive : throws std::logic_error{"Entity not found"}
ensure_alive_throws(e) == ~alive(e)

\* sparse_map::at, as registry::get_location uses it: throws std::out_of_range
\* for a key the map does not hold
at_throws(map, id) == id \notin DOMAIN map

\* registry::save_location
save_location(map, id, loc) ==
    IF id \in DOMAIN map THEN [map EXCEPT ![id] = loc] ELSE map @@ (id :> loc)

\* registry::remove_location
remove_location(map, id) == [i \in DOMAIN map \ {id} |-> map[i]]

\* What the current state carries into an outcome.
Here == [next_id |-> next_id, generations |-> generations, freed_ids |-> freed_ids,
         archetypes |-> archetypes, entity_map |-> entity_map, status |-> "running"]

\* registry::create<Args...>(args...) : the outcome of the call
registry_create(pack, data) ==
    LET p  == pool_create(next_id, generations, freed_ids)
        ea == ensure_archetype(archetypes, pack)
        pooled == [Here EXCEPT !.next_id = p.next_id, !.generations = p.generations,
                               !.freed_ids = p.freed_ids, !.archetypes = ea.archetypes]
    IN  IF ea.throws
        THEN pooled @@ [res |-> "capacity_exceeded", ent |-> p.ent]
        ELSE LET key == archetype_key(pack)
                 eb  == archetype_emplace_back(key, ea.archetypes[key], p.ent, data)
             IN  [pooled EXCEPT !.archetypes = [ea.archetypes EXCEPT ![key] = eb.archetype],
                                !.entity_map = save_location(entity_map, p.ent.id, eb.location)]
                 @@ [res |-> "ok", ent |-> p.ent]

\* What the reads of other's slot size()-1 can return when other is empty: any
\* handle and any component bytes.
WildEntities ==
    {Entity(i, g) : i \in 0..MaxIds, g \in 0..MaxGen} \cup {invalid}

WildSlots(arch) ==
    {[entity |-> w, data |-> d] :
        w \in WildEntities,
        d \in [Range(arch.components) -> Values \cup {"indeterminate"}]}

\* Stands for the slot that is not read when other is not empty.
NotRead == [entity |-> nullopt, data |-> <<>>]

\* What moved->id() can return when moved is std::nullopt: any id, in the map
\* or not.
WildIds(map) == DOMAIN map \cup {invalid_id}

\* registry::destroy(e) : the outcomes of the call
registry_destroy(e) ==
    IF ensure_alive_throws(e)
    THEN {Here @@ [res |-> "entity_not_found"]}
    ELSE IF at_throws(entity_map, e.id)
    THEN {Here @@ [res |-> "out_of_range"]}
    ELSE
    LET location == entity_map[e.id]
        arch     == archetypes[location.archetype]
        removed  == remove_location(entity_map, e.id)
        recycled == pool_recycle(generations, freed_ids, e)
        erased(r, map) ==
            [Here EXCEPT !.archetypes = [archetypes EXCEPT ![location.archetype] = r.archetype],
                         !.entity_map = map]
        done(r, map) ==
            [erased(r, map) EXCEPT !.generations = recycled.generations,
                                   !.freed_ids = recycled.freed_ids]
        r0 == archetype_erase_and_fill(arch, location, NotRead)
    IN  IF r0.assert_failed
        \* mem_block.hpp line 92: the assert aborts the process, or (NDEBUG) the
        \* call goes on with what it read past the empty block
        THEN {[Here EXCEPT !.status = "aborted"] @@ [res |-> "abort"]}
             \cup
             {LET r == archetype_erase_and_fill(arch, location, wild)
              IN  [done(r, save_location(removed, r.moved.id, location))
                      EXCEPT !.status = "corrupt"] @@ [res |-> "ok"]
              : wild \in WildSlots(arch)}
        ELSE IF r0.moved # nullopt
        THEN {done(r0, save_location(removed, r0.moved.id, location)) @@ [res |-> "ok"]}
        \* registry.hpp line 312 reads moved->id() of an empty optional, then
        \* get_location of that id returns or throws
        ELSE {IF at_throws(removed, id)
              THEN erased(r0, removed) @@ [res |-> "out_of_range"]
              ELSE done(r0, removed) @@ [res |-> "ok"]
              : id \in WildIds(removed)}

\* component_fetch::fetch_pointer / mem_block::get_block : mem_blocks_info_->at(id)
\* throws std::out_of_range, rethrown as std::logic_error "Component not found"
fetch_pointer_throws(arch, c) == c \notin DOMAIN arch.mem_blocks_info

\* get_impl falling back to the first component section when the layout map
\* has none for c
registry_get_first_section(e, c) ==
    IF ensure_alive_throws(e) THEN [res |-> "entity_not_found"]
    ELSE IF at_throws(entity_map, e.id) THEN [res |-> "out_of_range"]
    ELSE LET loc  == entity_map[e.id]
             arch == archetypes[loc.archetype]
             c1   == IF fetch_pointer_throws(arch, c) THEN Head(arch.components) ELSE c
         IN  [res |-> "ok", loc |-> loc,
              val |-> At(At(arch.mem_blocks, loc.mem_block_index).slots,
                         loc.entry_index).data[c1]]

\* registry::get_impl for one component: the outcome and the slot read
registry_get(e, c) ==
    IF ensure_alive_throws(e) THEN [res |-> "entity_not_found"]
    ELSE IF at_throws(entity_map, e.id) THEN [res |-> "out_of_range"]
    ELSE LET loc  == entity_map[e.id]
             arch == archetypes[loc.archetype]
         IN  IF fetch_pointer_throws(arch, c) THEN [res |-> "component_not_found"]
             ELSE [res |-> "ok", loc |-> loc,
                   val |-> At(At(arch.mem_blocks, loc.mem_block_index).slots,
                              loc.entry_index).data[c]]

\* registry::has<C>(e) : ensure_alive, location lookup, archetype::contains
registry_has(e, c) ==
    IF ensure_alive_throws(e) THEN [res |-> "entity_not_found"]
    ELSE IF at_throws(entity_map, e.id) THEN [res |-> "out_of_range"]
    ELSE [res |-> "ok",
          val |-> archetype_contains(archetypes[entity_map[e.id].archetype], c)]

\* ----------------------------------------------------------------- actions
\* Handles a caller can present: issued, stale, not yet issued, invalid.
HandlesWithin(ids, gen) ==
    {Entity(i, g) : i \in 0..(ids - 1), g \in 0..(gen + 1)} \cup {invalid}

Handles == HandlesWithin(MaxIds, MaxGen)

Call(op, e, arg, res, val) == [op |-> op, e |-> e, arg |-> arg, res |-> res, val |-> val]

Init ==
    /\ next_id = 0
    /\ generations = <<>>
    /\ freed_ids = <<>>
    /\ archetypes = <<>>
    /\ entity_map = <<>>
    /\ status = "running"
    /\ last = Call("init", invalid, <<>>, "ok", "none")
    /\ issued = {}
    /\ written = <<>>
    /\ lhs = component_set
    /\ rhs = component_set
    /\ meta_set = component_meta_set
    /\ returned = <<>>

Apply(o) ==
    /\ next_id' = o.next_id
    /\ generations' = o.generations
    /\ freed_ids' = o.freed_ids
    /\ archetypes' = o.archetypes
    /\ entity_map' = o.entity_map
    /\ status' = o.status

\* reg.create<pack...>(data...), while the pool stays within ids and gen
CreateWithin(pack, data, ids, gen) ==
    /\ status = "running"
    /\ IF freed_ids # <<>> THEN At(generations, Back(freed_ids)) <= gen
                            ELSE next_id < ids
    /\ LET o == registry_create(pack, data)
       IN  /\ Apply(o)
           /\ last' = Call("create", o.ent, pack, o.res, "none")
           /\ issued' = IF o.res = "ok" THEN issued \cup {o.ent} ELSE issued
           /\ written' = IF o.res = "ok" THEN written @@ (o.ent :> data) ELSE written
    /\ UNCHANGED objects

Create(pack, data) == CreateWithin(pack, data, MaxIds, MaxGen)

\* reg.destroy(e)
Destroy(e) ==
    /\ status = "running"
    /\ \E o \in registry_destroy(e) :
           /\ Apply(o)
           /\ last' = Call("destroy", e, <<>>, o.res, "none")
           /\ issued' = IF o.res = "ok" THEN issued \ {e} ELSE issued
           /\ written' = IF o.res = "ok"
                          THEN [h \in DOMAIN written \ {e} |-> written[h]]
                          ELSE written
    /\ UNCHANGED objects

\* reg.get<C>(e), read
Get(e, c) ==
    /\ status = "running"
    /\ LET o == registry_get(e, c)
       IN  last' = Call("get", e, c, o.res, IF o.res = "ok" THEN o.val ELSE "none")
    /\ UNCHANGED <<pool, store, status, issued, written, objects>>

\* reg.get<C>(e) = v, a write through the mutable reference
Write(e, c, v) ==
    /\ status = "running"
    /\ LET o == registry_get(e, c)
       IN  /\ o.res = "ok"
           /\ archetypes' =
                  [archetypes EXCEPT ![o.loc.archetype].mem_blocks[o.loc.mem_block_index + 1]
                                         .slots[o.loc.entry_index + 1].data[c] = v]
           /\ written' = IF e \in DOMAIN written
                          THEN [written EXCEPT ![e][c] = v] ELSE written
    /\ last' = Call("write", e, c, "ok", v)
    /\ UNCHANGED <<pool, entity_map, status, issued, objects>>

Next ==
    \/ \E pack \in Packs : \E data \in [Range(pack) -> Values] : Create(pack, data)
    \/ \E e \in Handles : Destroy(e)
    \/ \E e \in Handles, c \in ComponentNames : Get(e, c)
    \/ \E e \in Handles, c \in ComponentNames, v \in Values : Write(e, c, v)

Spec == Init /\ [][Next]_vars

\* ------------------------------------------------- storage-only exploration
\* create and destroy alone, over more entities: one value, the pack whose
\* archetype holds two entities per block, and destroy called with the handles
\* the caller holds (stale and invalid handles are Spec's).  Five entities in
\* one archetype are what it takes to fill a slot from an empty last block.
StoreIds == 5
StoreGen == 1

StorePacks == {<<"A">>}

StoreCreate(pack) ==
    CreateWithin(pack, [c \in Range(pack) |-> "x"], StoreIds, StoreGen)

NextStore ==
    \/ \E pack \in StorePacks : StoreCreate(pack)
    \/ \E e \in issued : Destroy(e)

SpecStore == Init /\ [][NextStore]_vars

\* ------------------------------------------------------ tuple get overloads
\* A component reference type: T& ("mut") or const T& ("const").
Ref(c, k) == [component |-> c, kind |-> k]

RefKinds == {"const", "mut"}

\* Template argument packs of get<Args...>: one or two references to distinct
\* component types A, B.
RefPacks ==
    {<<Ref(c, k)>> : c \in {"A", "B"}, k \in RefKinds}
    \cup {<<Ref("A", k1), Ref("B", k2)>> : k1 \in RefKinds, k2 \in RefKinds}

\* const_component_reference_v<T>
const_component_reference_v(r) == r.kind = "const"

\* const_component_references_v<Args...> : conjunction over the pack
const_component_references_v(refs) ==
    \A i \in 1..Len(refs) : const_component_reference_v(refs[i])

\* requires-clause of  std::tuple<Args...> get(entity ent)
get_tuple_requires(refs) == const_component_references_v(refs)

\* requires-clause of  std::tuple<Args...> get(entity ent) const
get_tuple_const_requires(refs) == ~const_component_references_v(refs)

\* Overload resolution of reg.get<Args...>(e) for a registry object that is
\* const or not: a non-const member function is not viable on a const object,
\* a constraint that fails removes the candidate, and on a non-const object
\* the non-const member is the better match.
get_tuple_overload(const_registry, refs) ==
    IF ~const_registry /\ get_tuple_requires(refs) THEN "get"
    ELSE IF get_tuple_const_requires(refs) THEN "get const"
    ELSE "ill_formed"

\* registry::get_impl<Args...> : the tuple of slots read
registry_get_tuple(e, refs) ==
    IF ensure_alive_throws(e) THEN [res |-> "entity_not_found", val |-> "none"]
    ELSE IF at_throws(entity_map, e.id) THEN [res |-> "out_of_range", val |-> "none"]
    ELSE LET loc  == entity_map[e.id]
             arch == archetypes[loc.archetype]
         IN  IF \E i \in 1..Len(refs) : fetch_pointer_throws(arch, refs[i].component)
             THEN [res |-> "component_not_found", val |-> "none"]
             ELSE [res |-> "ok",
                   val |-> [i \in 1..Len(refs) |->
                               At(At(arch.mem_blocks, loc.mem_block_index).slots,
                                  loc.entry_index).data[refs[i].component]]]

\* reg.get<Args...>(e) through a registry reference that is const or not; a
\* call that does not compile is not a call of the program
GetTuple(const_registry, e, refs) ==
    /\ status = "running"
    /\ get_tuple_overload(const_registry, refs) # "ill_formed"
    /\ LET o == registry_get_tuple(e, refs)
       IN  last' = Call("get_tuple", e,
                        [const_registry |-> const_registry, refs |-> refs,
                         overload |-> get_tuple_overload(const_registry, refs)],
                        o.res, o.val)
    /\ UNCHANGED <<pool, store, status, issued, written, objects>>

\* One entity at a time, created with <A> or <A, B>, read through tuple gets.
TupleIds == 2
TupleGen == 0

TuplePacks == {<<"A">>, <<"A", "B">>}

TupleCreate(pack) ==
    CreateWithin(pack, [c \in Range(pack) |-> "x"], TupleIds, TupleGen)

NextTuple ==
    \/ \E pack \in TuplePacks : TupleCreate(pack)
    \/ \E e \in issued : Destroy(e)
    \/ \E b \in BOOLEAN, e \in HandlesWithin(TupleIds, TupleGen), refs \in RefPacks :
          GetTuple(b, e, refs)

SpecTuple == Init /\ [][NextTuple]_vars

\* ---------------------------------------------------- successful calls only
\* SpecStore's creates and destroys, keeping the calls that return normally:
\* a destroy that throws, or that the assert aborts, ends the sequence.
OkCreate(pack) ==
    /\ StoreCreate(pack)
    /\ last'.res = "ok"

OkDestroy(e) ==
    /\ Destroy(e)
    /\ last'.res = "ok"

NextOk ==
    \/ \E pack \in StorePacks : OkCreate(pack)
    \/ \E e \in HandlesWithin(StoreIds, StoreGen) : OkDestroy(e)

SpecOk == Init /\ [][NextOk]_vars

\* ------------------------------------------------------- two archetypes
\* Six entities over the archetypes {A} (two entities per block) and {A, B}
\* (one entity per block), created and then destroyed: ids are not reused, so
\* the creates of a run precede its first destroy that returns.
FrameIds == 6
FrameGen == 0

FramePacks == {<<"A">>, <<"A", "B">>}

FrameCreate(pack) ==
    CreateWithin(pack, [c \in Range(pack) |-> "x"], FrameIds, FrameGen)

NextFrame ==
    \/ \E pack \in FramePacks : FrameCreate(pack)
    \/ \E e \in issued : Destroy(e)

SpecFrame == Init /\ [][NextFrame]_vars

\* ------------------------------------------------- end of the registry
\* mem_block::destroy_at : the destruct calls it makes, one per section of
\* the layout
destroy_at(info) == Cardinality(DOMAIN info)

\* mem_block::~mem_block for a block that owns its buffer: the destruct calls
\* it makes before std::free.  The loops run over every section and every
\* slot below number_of_elements_; their body is a comment.
mem_block_destructor(info, mb) ==
    LET calls_per_slot == 0
    IN  Cardinality(DOMAIN info) * size(mb) * calls_per_slot

\* archetype::~archetype (implicit) : mem_blocks_ is destroyed block by block
archetype_destructor(arch) ==
    SumSeq([i \in 1..Len(arch.mem_blocks) |->
               mem_block_destructor(arch.mem_blocks_info, arch.mem_blocks[i])])

\* archetype_registry::~archetype_registry (implicit) : every
\* std::unique_ptr<archetype> of archetypes_ deletes its archetype
RECURSIVE archetype_registry_destructor(_, _)
archetype_registry_destructor(archs, keys) ==
    IF keys = {} THEN 0
    ELSE LET key == CHOOSE k \in keys : TRUE
         IN  (IF archs[key] = nullptr THEN 0 ELSE archetype_destructor(archs[key]))
             + archetype_registry_destructor(archs, keys \ {key})

\* registry::~registry (implicit) : the destruct calls made while the members
\* are destroyed
registry_destructor == archetype_registry_destructor(archetypes, DOMAIN archetypes)

\* The registry goes out of scope.
Drop ==
    /\ status = "running"
    /\ next_id' = 0
    /\ generations' = <<>>
    /\ freed_ids' = <<>>
    /\ archetypes' = <<>>
    /\ entity_map' = <<>>
    /\ status' = "destroyed"
    /\ last' = Call("drop", invalid, <<>>, "ok", registry_destructor)
    /\ issued' = {}
    /\ written' = <<>>
    /\ UNCHANGED objects

\* Three entities over two archetypes, created, destroyed and then dropped
\* with the registry.
LifeIds == 3
LifeGen == 1

LifePacks == {<<"A">>, <<"A", "B">>}

LifeCreate(pack) ==
    CreateWithin(pack, [c \in Range(pack) |-> "x"], LifeIds, LifeGen)

NextLife ==
    \/ \E pack \in LifePacks : LifeCreate(pack)
    \/ \E e \in issued : Destroy(e)
    \/ Drop

SpecLife == Init /\ [][NextLife]_vars

\* ------------------------------------------------- component sets alone
\* Two component_set objects driven by insert, erase and clear; the registry
\* is left as constructed.
registry_vars == <<next_id, generations, freed_ids, archetypes, entity_map, status,
                   issued, written>>

SetInsert(id) ==
    /\ \/ lhs' = component_set_insert(lhs, id) /\ rhs' = rhs
       \/ rhs' = component_set_insert(rhs, id) /\ lhs' = lhs
    /\ last' = Call("insert", invalid, id, "ok", "none")
    /\ UNCHANGED <<registry_vars, meta_set, returned>>

SetErase(id) ==
    /\ \/ lhs' = component_set_erase(lhs, id) /\ rhs' = rhs
       \/ rhs' = component_set_erase(rhs, id) /\ lhs' = lhs
    /\ last' = Call("erase", invalid, id, "ok", "none")
    /\ UNCHANGED <<registry_vars, meta_set, returned>>

SetClear ==
    /\ \/ lhs' = component_set_clear(lhs) /\ rhs' = rhs
       \/ rhs' = component_set_clear(rhs) /\ lhs' = lhs
    /\ last' = Call("clear", invalid, <<>>, "ok", "none")
    /\ UNCHANGED <<registry_vars, meta_set, returned>>

NextSet ==
    \/ \E id \in ComponentIds : SetInsert(id)
    \/ \E id \in ComponentIds : SetErase(id)
    \/ SetClear

SpecSet == Init /\ [][NextSet]_vars

\* ------------------------------------------------------ entity_pool alone
\* An entity_pool driven by create and recycle, with the handles create has
\* returned and the default-constructed handle.  The pool starts as
\* constructed, or as it is after id 0 has been created and recycled
\* invalid_generation - 1 times: of that history, returned keeps the first
\* handle and the latest.
PoolIds == 2
PoolCalls == 5

InitPool ==
    /\ \/ /\ next_id = 0
          /\ generations = <<>>
          /\ freed_ids = <<>>
          /\ returned = <<>>
       \/ /\ next_id = 1
          /\ generations = <<invalid_generation - 1>>
          /\ freed_ids = <<0>>
          /\ returned = <<Entity(0, 0), Entity(0, invalid_generation - 2)>>
    /\ archetypes = <<>>
    /\ entity_map = <<>>
    /\ status = "running"
    /\ last = Call("init", invalid, <<>>, "ok", "none")
    /\ issued = {}
    /\ written = <<>>
    /\ lhs = component_set
    /\ rhs = component_set
    /\ meta_set = component_meta_set

\* pool.create()
PoolCreate ==
    /\ Len(returned) < PoolCalls
    /\ freed_ids = <<>> => next_id < PoolIds
    /\ LET p == pool_create(next_id, generations, freed_ids)
       IN  /\ next_id' = p.next_id
           /\ generations' = p.generations
           /\ freed_ids' = p.freed_ids
           /\ returned' = Append(returned, p.ent)
           /\ last' = Call("pool_create", p.ent, <<>>, "ok", "none")
    /\ UNCHANGED <<store, status, issued, written, lhs, rhs, meta_set>>

\* pool.recycle(e)
PoolRecycle(e) ==
    /\ LET r == pool_recycle(generations, freed_ids, e)
       IN  /\ generations' = r.generations
           /\ freed_ids' = r.freed_ids
           /\ last' = Call("pool_recycle", e, <<>>, "ok", "none")
    /\ UNCHANGED <<next_id, store, status, issued, written, objects>>

NextPool ==
    \/ PoolCreate
    \/ \E e \in Range(returned) \cup {invalid} : PoolRecycle(e)

SpecPool == InitPool /\ [][NextPool]_vars

\* ------------------------------------------------- archetype layouts alone
\* Archetypes constructed for component types of many sizes and alignments;
\* the registry is left as constructed.  sizeof is a multiple of alignof.
MaxComponents == 3

LayoutSizes == {1, 2, 4, 8, 12, 16, 4096, 8000, 16376}

LayoutAligns == {1, 2, 4, 8, 16}

LayoutTypes ==
    {type \in [size : LayoutSizes, align : LayoutAligns] : type.size % type.align = 0}

SectionIds == <<"c1", "c2", "c3", "c4">>

\* component_meta_set::insert(meta) for a component type not yet in the set
MetaInsert(type) ==
    /\ status = "running"
    /\ Len(meta_set.components_meta_data_) < MaxComponents
    /\ meta_set' = component_meta_set_insert(meta_set,
                       [id |-> SectionIds[Len(meta_set.components_meta_data_) + 1],
                        type |-> type])
    /\ last' = Call("meta_insert", invalid, type, "ok", "none")
    /\ UNCHANGED <<registry_vars, sets, returned>>

\* archetype::archetype(component_meta_set) : max_size_ and mem_blocks_info_
\* of the archetype, or the std::overflow_error of get_max_size
NewArchetype ==
    /\ status = "running"
    /\ LET metas == meta_set.components_meta_data_
       IN  last' = IF get_max_size_throws(metas)
                   THEN Call("archetype", invalid, metas, "capacity_exceeded", "none")
                   ELSE Call("archetype", invalid, metas, "ok",
                             [max_size |-> get_max_size(metas),
                              mem_blocks_info |->
                                  init_component_sections(metas, get_max_size(metas))])
    /\ UNCHANGED <<registry_vars, objects>>

NextLayout ==
    \/ \E type \in LayoutTypes : MetaInsert(type)
    \/ NewArchetype

SpecLayout == Init /\ [][NextLayout]_vars

\* ------------------------------------------------ component_meta_set alone
\* A component_meta_set driven by insert and erase with four component types,
\* one of them with its bit in the second word of the bitmask.
SectionMeta(c) == [id |-> c, type |-> [size |-> 8, align |-> 8]]

\* set.insert<C>()
MetaSetInsert(c) ==
    /\ meta_set' = component_meta_set_insert(meta_set, SectionMeta(c))
    /\ last' = Call("meta_set_insert", invalid, c, "ok", "none")
    /\ UNCHANGED <<registry_vars, sets, returned>>

\* set.erase<C>()
MetaSetErase(c) ==
    /\ meta_set' = component_meta_set_erase(meta_set, component_id[c])
    /\ last' = Call("meta_set_erase", invalid, c, "ok", "none")
    /\ UNCHANGED <<registry_vars, sets, returned>>

NextMeta ==
    \/ \E c \in Range(SectionIds) : MetaSetInsert(c)
    \/ \E c \in Range(SectionIds) : MetaSetErase(c)

SpecMeta == Init /\ [][NextMeta]_vars

\* ------------------------------------------------------------------- views
\* mem_block_view::size
mem_block_view_size(mb) == size(mb)

\* Component sets a view can ask for.
Requests == SUBSET ComponentNames \ {{}}

\* view<Refs...>().size() : the sum of block.n over the blocks of every
\* archetype that contains every requested component
view_size(req) ==
    LET matching == {key \in DOMAIN archetypes :
                        archetypes[key] # nullptr /\ req \subseteq key}
        RECURSIVE total(_)
        total(keys) ==
            IF keys = {} THEN 0
            ELSE LET key == CHOOSE k \in keys : TRUE
                     blocks == archetypes[key].mem_blocks
                 IN  SumSeq([i \in 1..Len(blocks) |-> mem_block_view_size(blocks[i])])
                     + total(keys \ {key})
    IN  total(matching)

\* component_fetch::fetch_pointer<T>(mb, index) : the address of slot index in
\* c's section, as a byte offset into the block's buffer
fetch_pointer(arch, c, index) ==
    arch.mem_blocks_info[c].offset + index * arch.mem_blocks_info[c].meta.size

\* mem_block_iterator(mb, index) : one pointer per requested component
mem_block_iterator(arch, req, index) ==
    [c \in req |-> fetch_pointer(arch, c, index)]

\* mem_block_view::begin
mem_block_view_begin(arch, mb, req) == mem_block_iterator(arch, req, 0)

\* end() placed at the block's capacity instead of its size
mem_block_view_end_at_capacity(arch, mb, req) ==
    mem_block_iterator(arch, req, mb.max_size)

\* mem_block_view::end
mem_block_view_end(arch, mb, req) == mem_block_iterator(arch, req, size(mb))

\* mem_block_iterator::operator++ : every pointer advances by its type's size
iterator_increment(arch, it) ==
    [c \in DOMAIN it |-> it[c] + arch.mem_blocks_info[c].meta.size]

\* The slot the pointers of an iterator address (operator* reads it).
iterator_slot(arch, it) ==
    LET c == CHOOSE x \in DOMAIN it : TRUE
    IN  (it[c] - arch.mem_blocks_info[c].offset) \div arch.mem_blocks_info[c].meta.size

\* for (it = begin(); it != end(); ++it) : the slots visited, in order
RECURSIVE iterate(_, _, _)
iterate(arch, it, end) ==
    IF it = end THEN <<>>
    ELSE <<iterator_slot(arch, it)>> \o iterate(arch, iterator_increment(arch, it), end)

block_each(arch, mb, req) ==
    iterate(arch, mem_block_view_begin(arch, mb, req), mem_block_view_end(arch, mb, req))

\* Archetypes a view over req visits.
matching(req) ==
    {key \in DOMAIN archetypes : archetypes[key] # nullptr /\ req \subseteq key}

\* view<Refs...>().each() : the number of tuples yielded, over every block of
\* every matching archetype
view_each_count(req) ==
    LET RECURSIVE total(_)
        total(keys) ==
            IF keys = {} THEN 0
            ELSE LET key == CHOOSE k \in keys : TRUE
                     arch == archetypes[key]
                 IN  SumSeq([i \in 1..Len(arch.mem_blocks) |->
                                Len(block_each(arch, arch.mem_blocks[i], req))])
                     + total(keys \ {key})
    IN  total(matching(req))

\* ------------------------------------------------------------------ claims
\* Entities of the caller that are alive.
Live == {e \in issued : alive(e)}

Composition(e) == DOMAIN written[e]

Archetypes == {key \in DOMAIN archetypes : archetypes[key] # nullptr}

BlockSizes(key) ==
    [i \in 1..Len(archetypes[key].mem_blocks) |-> size(archetypes[key].mem_blocks[i])]

SlotAt(archs, loc) ==
    At(At(archs[loc.archetype].mem_blocks, loc.mem_block_index).slots, loc.entry_index)

LastSlotOfLastBlock(loc) ==
    LET blocks == archetypes[loc.archetype].mem_blocks
    IN  /\ loc.mem_block_index = Len(blocks) - 1
        /\ loc.entry_index = size(Back(blocks)) - 1

\* C1: every handle returned by a create and not yet passed to a successful
\* destroy is alive, in every reachable state.
C1_IssuedHandlesAlive == \A e \in issued : alive(e)

\* C1 witness: two handles are held, one of them on an id that was destroyed
\* and handed out again.
C1_Witness ==
    /\ Cardinality(issued) = 2
    /\ \E e \in issued : e.generation > 0 /\ alive(e)

\* C2 (as claimed): destroy(e) of an alive, stored entity returns normally with
\* alive(e) false and the aliveness of every other handle the caller holds as
\* before.
C2_DestroyEndsAliveness ==
    [][(/\ last'.op = "destroy"
        /\ alive(last'.e)
        /\ last'.e.id \in DOMAIN entity_map)
       => (/\ last'.res = "ok"
           /\ ~pool_alive(generations', last'.e)
           /\ \A h \in issued \ {last'.e} :
                 pool_alive(generations', h) = pool_alive(generations, h))]_vars

\* C3 (as claimed): for every live entity e and component C of its composition,
\* get<C>(e) returns the value most recently written to e's C.
C3_GetReturnsLastWritten ==
    \A e \in Live : \A c \in Composition(e) :
        /\ registry_get(e, c).res = "ok"
        /\ registry_get(e, c).val = written[e][c]

\* C4 (as claimed): after destroy(e) with e not in the last live slot of its
\* archetype's last block, exactly one other entity's location changes, to the
\* location e had, and that entity's component values are as before.
C4_SwapEraseMovesExactlyOne ==
    [][(/\ last'.op = "destroy"
        /\ last'.res = "ok"
        /\ status' = "running"
        /\ ~LastSlotOfLastBlock(entity_map[last'.e.id]))
       => LET old     == entity_map[last'.e.id]
              changed == {i \in DOMAIN entity_map' : entity_map'[i] # entity_map[i]}
          IN  /\ Cardinality(changed) = 1
              /\ \A i \in changed :
                    /\ entity_map'[i] = old
                    /\ SlotAt(archetypes', old).data = SlotAt(archetypes, entity_map[i]).data]_vars

\* C5 (as claimed): in every reachable state every block but the last of an
\* archetype holds exactly max_size live entries.
C5_OnlyLastBlockPartial ==
    \A key \in Archetypes :
        \A i \in 1..(Len(archetypes[key].mem_blocks) - 1) :
            size(archetypes[key].mem_blocks[i]) = archetypes[key].max_size

\* C6 (as claimed): for every archetype the sum of its blocks' live-entry
\* counts equals the number of live entities whose recorded location names the
\* archetype.
C6_BlockCountsMatchLocations ==
    \A key \in Archetypes :
        SumSeq(BlockSizes(key)) =
            Cardinality({e \in Live : /\ e.id \in DOMAIN entity_map
                                      /\ entity_map[e.id].archetype = key})

\* C7: destroy(e) and get<T>(e) with a handle that is not alive fail with
\* entity-not-found and leave the pool, the archetypes and the location map
\* unchanged.
C7_NotAliveFailsUnchanged ==
    [][(/\ last'.op \in {"destroy", "get"}
        /\ ~alive(last'.e))
       => (/\ last'.res = "entity_not_found"
           /\ UNCHANGED <<pool, store>>)]_vars

\* C7 witness: destroy was called with the stale handle of an id that has been
\* reused by an entity now stored, and failed.
C7_Witness ==
    /\ last.op = "destroy"
    /\ last.res = "entity_not_found"
    /\ last.e.id \in DOMAIN entity_map
    /\ last.e.id < Len(generations)
    /\ last.e.generation < At(generations, last.e.id)

\* C8: get<T>(e) for an alive, stored entity whose archetype does not contain
\* T fails with component-not-found and leaves the registry unchanged.
C8_MissingComponentFails ==
    [][(/\ last'.op = "get"
        /\ alive(last'.e)
        /\ last'.e.id \in DOMAIN entity_map
        /\ ~archetype_contains(archetypes[entity_map[last'.e.id].archetype], last'.arg))
       => (/\ last'.res = "component_not_found"
           /\ UNCHANGED <<pool, store>>)]_vars

\* C8 witness: get<B> was called on an alive entity stored in archetype {A}
\* and failed with component-not-found.
C8_Witness ==
    /\ last.op = "get"
    /\ last.res = "component_not_found"
    /\ last.arg = "B"
    /\ alive(last.e)
    /\ last.e.id \in DOMAIN entity_map
    /\ entity_map[last.e.id].archetype = {"A"}

\* C9 (as claimed): a create that fails with capacity-exceeded leaves the
\* archetype map and the location map unchanged.
C9_FailedCreateLeavesMaps ==
    [][(/\ last'.op = "create"
        /\ last'.res = "capacity_exceeded")
       => (/\ archetypes' = archetypes
           /\ entity_map' = entity_map)]_vars

\* C10 (as claimed): view<Refs...>().size() equals the number of live entities
\* whose composition contains every requested component.
C10_ViewSizeCountsLive ==
    \A req \in Requests :
        view_size(req) = Cardinality({e \in Live : req \subseteq Composition(e)})

\* C11: for every view, size() equals the number of tuples each() yields; in
\* every block the iteration from begin to end visits the slots 0 .. n-1 once
\* each, in order, and a block with n = 0 yields none.
C11_SizeEqualsEachCount ==
    \A req \in Requests :
        /\ view_size(req) = view_each_count(req)
        /\ \A key \in matching(req) :
              \A i \in 1..Len(archetypes[key].mem_blocks) :
                  LET mb == archetypes[key].mem_blocks[i]
                  IN  block_each(archetypes[key], mb, req) = [k \in 1..size(mb) |-> k - 1]

\* C11 witness: a view over {A, B} meets an archetype whose first block is
\* empty and whose second block holds an entity, and yields one tuple.
C11_Witness ==
    /\ {"A", "B"} \in matching({"A", "B"})
    /\ Len(archetypes[{"A", "B"}].mem_blocks) = 2
    /\ size(archetypes[{"A", "B"}].mem_blocks[1]) = 0
    /\ size(archetypes[{"A", "B"}].mem_blocks[2]) = 1
    /\ view_each_count({"A", "B"}) = 1

\* C13: whenever operator== holds between two component sets produced by any
\* sequences of insert, erase and clear, their hash values are equal.
C13_EqualSetsHashEqual ==
    component_set_eq(lhs, rhs) => component_set_hasher(lhs) = component_set_hasher(rhs)

\* C13 witness: two sets compare equal, hold bits in two words, and the last
\* call was an erase.
C13_Witness ==
    /\ component_set_eq(lhs, rhs)
    /\ Len(lhs) = 2
    /\ lhs[1] # {}
    /\ last.op = "erase"

\* C12: a create places the new entity in the archetype of every stored entity
\* that has the same set of component types, whatever the order of the type
\* parameters, and in no other entity's archetype; the component sets built
\* from the two packs compare equal exactly then; the archetype keeps the
\* layout of its first create; and the slots get reads hold each component's
\* own value for the new entity and for the entities stored before.
C12_SameSetSameArchetype ==
    [][(/\ last'.op = "create"
        /\ last'.res = "ok")
       => LET e    == last'.e
              pack == last'.arg
              loc  == entity_map'[e.id]
              Stored == {h \in Live : h.id \in DOMAIN entity_map}
          IN  /\ \A h \in Stored :
                    LET hkey  == entity_map[h.id].archetype
                        same  == Range(pack) = Composition(h)
                    IN  /\ same <=> (loc.archetype = hkey)
                        /\ same <=> component_set_eq(tmp_component_set(pack),
                                                     tmp_component_set(archetypes[hkey].components))
                        /\ same => /\ archetypes'[hkey].components = archetypes[hkey].components
                                   /\ archetypes'[hkey].mem_blocks_info = archetypes[hkey].mem_blocks_info
                        /\ \A c \in Composition(h) :
                              SlotAt(archetypes', entity_map'[h.id]).data[c] = written[h][c]
              /\ \A c \in Range(pack) :
                    SlotAt(archetypes', loc).data[c] = written'[e][c]]_vars

\* C12 witness: create<B, A> has just stored an entity in the archetype that
\* create<A, B> built, next to the entity created first.
C12_Witness ==
    /\ last.op = "create"
    /\ last.res = "ok"
    /\ last.arg = <<"B", "A">>
    /\ {"A", "B"} \in Archetypes
    /\ archetypes[{"A", "B"}].components = <<"A", "B">>
    /\ last.e.id \in DOMAIN entity_map
    /\ entity_map[last.e.id].archetype = {"A", "B"}
    /\ \E h \in Live \ {last.e} : /\ h.id \in DOMAIN entity_map
                                   /\ entity_map[h.id].archetype = {"A", "B"}

\* C14 (as claimed): for every alive entity e and component type T, has<T>(e)
\* returns true exactly when T is one of the types e was created with.
C14_HasMatchesComposition ==
    \A e \in Live : \A c \in ComponentNames :
        /\ registry_has(e, c).res = "ok"
        /\ registry_has(e, c).val = (c \in Composition(e))

\* C15 (as claimed): a tuple of all-const references can be obtained from a
\* const registry, a tuple with a mutable reference can be obtained from a
\* mutable registry and not from a const one, and no tuple get made on a const
\* registry yields a mutable reference.
C15_TupleGetConstCorrect ==
    /\ \A refs \in RefPacks :
          /\ get_tuple_overload(FALSE, refs) # "ill_formed"
          /\ const_component_references_v(refs) <=> get_tuple_overload(TRUE, refs) # "ill_formed"
    /\ (last.op = "get_tuple" /\ last.arg.const_registry)
          => const_component_references_v(last.arg.refs)

InSlot(archs, loc) ==
    IF /\ loc.archetype \in DOMAIN archs
       /\ loc.mem_block_index < Len(archs[loc.archetype].mem_blocks)
       /\ loc.entry_index < Len(At(archs[loc.archetype].mem_blocks, loc.mem_block_index).slots)
    THEN SlotAt(archs, loc)
    ELSE NotRead

\* C17: a destroy changes the recorded location of at most one entity other
\* than the one destroyed; that entity is then stored, with its values, in the
\* slot the map records for it; every other stored entity keeps its location
\* and is still in the slot it was in.
C17_DestroyMovesAtMostOne ==
    [][last'.op = "destroy"
       => LET e       == last'.e
              others  == {i \in DOMAIN entity_map : i # e.id \/ ~alive(e)}
              changed == {i \in others : \/ i \notin DOMAIN entity_map'
                                         \/ entity_map'[i] # entity_map[i]}
          IN  /\ Cardinality(changed) <= 1
              /\ \A i \in changed :
                    /\ i \in DOMAIN entity_map'
                    /\ InSlot(archetypes', entity_map'[i]) = InSlot(archetypes, entity_map[i])
              /\ \A i \in others :
                    InSlot(archetypes, entity_map[i]).entity.id = i
                    => /\ i \in DOMAIN entity_map'
                       /\ InSlot(archetypes', entity_map'[i]).entity.id = i]_vars

\* C18: the number of archetypes counts the component sets for which a create
\* has succeeded: a step adds one archetype exactly when it is a successful
\* create of a set that had no archetype yet (an entry holds an archetype from
\* the first successful create of its set on), and no other step, destroy
\* included, changes the number.
C18_ArchetypeCountIsCreatedSets ==
    [][LET fresh == /\ last'.op = "create"
                    /\ last'.res = "ok"
                    /\ archetype_key(last'.arg) \notin Archetypes
       IN  archetype_registry_size(archetypes')
             = archetype_registry_size(archetypes) + (IF fresh THEN 1 ELSE 0)]_vars

\* C19: when destroy(e) is called for an alive entity with a location and the
\* swap-erase moves nothing (erase_and_fill returns std::nullopt), destroy
\* returns normally, with e's location removed and e's handle recycled.
C19_DestroyWithoutMoveReturns ==
    [][LET e == last'.e
       IN  (/\ last'.op = "destroy"
            /\ alive(e)
            /\ ~at_throws(entity_map, e.id)
            /\ LET location == entity_map[e.id]
                   r == archetype_erase_and_fill(archetypes[location.archetype],
                                                 location, NotRead)
               IN  ~r.assert_failed /\ r.moved = nullopt)
           => /\ last'.res = "ok"
              /\ at_throws(entity_map', e.id)
              /\ ~pool_alive(generations', e)
              /\ Back(freed_ids') = e.id]_vars

\* The component objects alive in the blocks of the registry: one per section
\* of the layout for each slot below a block's number_of_elements.
RECURSIVE LiveComponents(_, _)
LiveComponents(archs, keys) ==
    IF keys = {} THEN 0
    ELSE LET key == CHOOSE k \in keys : TRUE
         IN  SumSeq([i \in 1..Len(archs[key].mem_blocks) |->
                        destroy_at(archs[key].mem_blocks_info)
                        * size(archs[key].mem_blocks[i])])
             + LiveComponents(archs, keys \ {key})

\* C20: no component is left undestroyed when a block's buffer is freed: when
\* the registry is dropped, the destructor is called once for every component
\* alive in the slots [0, n) of every block.
C20_DropDestroysLiveComponents ==
    [][last'.op = "drop"
       => last'.val = LiveComponents(archetypes, DOMAIN archetypes)]_vars

\* The layout of the archetype just constructed.
Constructed == last.op = "archetype" /\ last.res = "ok"

\* C21: in every archetype constructed, the offset recorded for the entity
\* array and for each component array is a multiple of that component's align.
C21_SectionOffsetsAligned ==
    Constructed
    => \A id \in DOMAIN last.val.mem_blocks_info :
          LET section == last.val.mem_blocks_info[id]
          IN  section.offset % section.meta.align = 0

\* C22: in every archetype constructed, every array of the layout ends inside
\* the block buffer: recorded offset + max_size * size <= mem_block_size.
C22_SectionsInsideBuffer ==
    Constructed
    => \A id \in DOMAIN last.val.mem_blocks_info :
          LET section == last.val.mem_blocks_info[id]
          IN  section.offset + last.val.max_size * section.meta.size <= mem_block_size

\* value rounded up to the next multiple of align
RoundUp(value, align) == ((value + align - 1) \div align) * align

RECURSIVE RunningEnd(_, _)
RunningEnd(end, types) ==
    IF types = <<>> THEN end
    ELSE RunningEnd(RoundUp(end, Head(types).align) + Head(types).size, Tail(types))

\* The one-slot aligned footprint of [entity, C1, C2, ...]
AlignedFootprint(metas) ==
    RunningEnd(alloc_alignment, <<EntityMeta>> \o Types(metas)) - alloc_alignment

C24_SameIdsCompareEqual ==
    (\A id \in ComponentIds :
        component_set_contains(lhs, id) = component_set_contains(rhs, id))
    => component_set_eq(lhs, rhs)

\* The last handle create returned with this id.
LastIssued(id) ==
    LET calls == {i \in 1..Len(returned) : returned[i].id = id}
    IN  returned[CHOOSE i \in calls : \A j \in calls : j <= i]

\* C25: next_id equals the length of generations, and for every id in
\* freed_ids, generations[id] is one greater than the generation of the last
\* handle issued with that id.
C25_PoolInvariant ==
    /\ next_id = Len(generations)
    /\ \A id \in Range(freed_ids) :
          At(generations, id) - 1 = LastIssued(id).generation

\* C26: recycle(e) of a handle that is not alive (id out of range, or another
\* generation than generations[id]) leaves next_id, generations and freed_ids
\* unchanged.
C26_RecycleNotAliveIsNoOp ==
    [][(last'.op = "pool_recycle" /\ ~pool_alive(generations, last'.e))
          => UNCHANGED pool]_vars

\* C26 witness: a handle create returned was recycled a second time, after
\* its id had been issued again, and its id is not in freed_ids.
C26_Witness ==
    /\ last.op = "pool_recycle"
    /\ last.e \in Range(returned)
    /\ ~pool_alive(generations, last.e)
    /\ last.e.id \notin Range(freed_ids)

\* C27: a handle that has been recycled never becomes alive again, and create
\* never returns a handle equal to one it returned earlier.
C27_HandlesNeverRepeat ==
    [][/\ \A h \in Range(returned) :
             ~pool_alive(generations, h) => ~pool_alive(generations', h)
       /\ returned' # returned => Back(returned') \notin Range(returned)]_vars

\* C28: a successful create appends to the last block of its archetype: a new
\* block is allocated first exactly when the last block was full, the earlier
\* blocks are left as they were, and the location recorded is
\* {archetype, number of blocks - 1, n - 1} with n the last block's count after
\* the insertion.
C28_EmplaceBackAppendsToLastBlock ==
    [][(last'.op = "create" /\ last'.res = "ok")
       => LET key   == archetype_key(last'.arg)
              new   == archetypes'[key].mem_blocks
              old   == IF key \in Archetypes THEN archetypes[key].mem_blocks
                       ELSE <<mem_block(archetypes'[key].max_size)>>
              grown == full(Back(old))
              loc   == entity_map'[last'.e.id]
          IN  /\ Len(new) = Len(old) + (IF grown THEN 1 ELSE 0)
              /\ \A i \in 1..(Len(new) - 1) : new[i] = old[i]
              /\ size(Back(new)) = (IF grown THEN 0 ELSE size(Back(old))) + 1
              /\ loc = Location(key, Len(new) - 1, size(Back(new)) - 1)
              /\ InSlot(archetypes', loc).entity = last'.e]_vars

\* C28 witness: a create found the last block full, allocated a third block
\* and placed its entity in slot 0 of it.
C28_Witness ==
    /\ last.op = "create"
    /\ last.res = "ok"
    /\ entity_map[last.e.id].mem_block_index = 2
    /\ entity_map[last.e.id].entry_index = 0

\* C29: the block vector of every archetype is non-empty, and after every
\* destroy the last block of an archetype is non-empty unless it is the
\* archetype's only block.
C29_TrailingBlockNotEmpty ==
    [][/\ \A key \in Archetypes : Len(archetypes'[key].mem_blocks) >= 1
       /\ last'.op = "destroy"
          => \A key \in Archetypes :
                Len(archetypes'[key].mem_blocks) > 1
                => ~empty(Back(archetypes'[key].mem_blocks))]_vars

\* C30: whenever a destroy pops the empty trailing block of an archetype, at
\* least one of the remaining blocks of that archetype is non-empty.
C30_PopLeavesNonEmptyBlock ==
    [][last'.op = "destroy"
       => \A key \in Archetypes :
             LET old == archetypes[key].mem_blocks
                 new == archetypes'[key].mem_blocks
             IN  Len(new) < Len(old)
                 => \E i \in 1..Len(new) : ~empty(new[i])]_vars

\* destroy(e) reaches the fill of mem_block::erase_and_fill: e is alive and has a
\* location, and the slot erased is neither the only nor the last live entry of
\* its block.
DestroyFills(e) ==
    /\ alive(e)
    /\ ~at_throws(entity_map, e.id)
    /\ LET location == entity_map[e.id]
           r == archetype_erase_and_fill(archetypes[location.archetype], location, NotRead)
       IN  r.assert_failed \/ r.moved # nullopt

\* C31: whenever a destroy moves an entity, the entity then stored in the erased
\* slot is the one that occupied the last live slot of the archetype's last
\* block before the destroy; the count of that last block decreases by one (the
\* block is popped when that empties it) and the count of every other block,
\* the target block included, is unchanged.
C31_MoveTakesLastSlotOfLastBlock ==
    [][(/\ last'.op = "destroy"
        /\ DestroyFills(last'.e)
        /\ status' # "aborted")
       => LET loc  == entity_map[last'.e.id]
              old  == archetypes[loc.archetype].mem_blocks
              new  == archetypes'[loc.archetype].mem_blocks
              n    == Len(old)
              src  == IF empty(Back(old)) THEN NotRead
                      ELSE InSlot(archetypes,
                                  Location(loc.archetype, n - 1, size(Back(old)) - 1))
          IN  /\ src # NotRead
              /\ InSlot(archetypes', loc) = src
              /\ entity_map'[src.entity.id] = loc
              /\ \A i \in 1..(n - 1) : size(new[i]) = size(old[i])
              /\ IF size(old[n]) = 1 /\ n > 1
                 THEN Len(new) = n - 1
                 ELSE Len(new) = n /\ size(new[n]) = size(old[n]) - 1]_vars

\* C32: while the registry runs, every live entity has a recorded location that
\* names an existing block of its archetype and a slot below that block's
\* count, the handle stored in that slot is the entity's, no two live entities
\* share a location, and the live entities located in a block fill its slots
\* [0, n).
C32_StorageAgreesWithLocations ==
    status = "running"
    => /\ \A e \in Live :
              /\ ~at_throws(entity_map, e.id)
              /\ LET loc == entity_map[e.id]
                 IN  /\ loc.archetype \in Archetypes
                     /\ loc.mem_block_index < Len(archetypes[loc.archetype].mem_blocks)
                     /\ loc.entry_index
                          < size(At(archetypes[loc.archetype].mem_blocks, loc.mem_block_index))
                     /\ SlotAt(archetypes, loc).entity = e
       /\ \A e \in Live : \A f \in Live \ {e} : entity_map[e.id] # entity_map[f.id]
       /\ \A key \in Archetypes : \A b \in 1..Len(archetypes[key].mem_blocks) :
              {entity_map[e.id].entry_index :
                  e \in {f \in Live : /\ entity_map[f.id].archetype = key
                                      /\ entity_map[f.id].mem_block_index = b - 1}}
                = 0..(size(archetypes[key].mem_blocks[b]) - 1)

\* C33: in every state reached by creates and destroys that all returned
\* normally, the location map has an entry for exactly the ids of the live
\* entities.
C33_MapKeysAreLiveIds ==
    DOMAIN entity_map = {e.id : e \in Live}

\* C34: freed_ids holds no id twice and no id of a live entity, and two live
\* entities never share an id.
C34_OneAliveHandlePerId ==
    /\ \A i \in 1..Len(freed_ids) : \A j \in 1..Len(freed_ids) :
          i # j => freed_ids[i] # freed_ids[j]
    /\ \A e \in Live : e.id \notin Range(freed_ids)
    /\ \A e \in Live : \A f \in Live \ {e} : e.id # f.id

\* C35: destroy(e) leaves every archetype other than e's as it was (blocks,
\* counts, stored values), and leaves the recorded location of every entity
\* located in another archetype as it was.
C35_DestroyChangesOnlyItsArchetype ==
    [][last'.op = "destroy"
       => LET e   == last'.e
              own == IF alive(e) /\ ~at_throws(entity_map, e.id)
                     THEN {entity_map[e.id].archetype} ELSE {}
          IN  /\ \A key \in DOMAIN archetypes \ own : archetypes'[key] = archetypes[key]
              /\ \A i \in DOMAIN entity_map :
                    entity_map[i].archetype \notin own
                    => /\ i \in DOMAIN entity_map'
                       /\ entity_map'[i] = entity_map[i]]_vars

\* C36: a create that returns leaves every entity that was alive before it
\* alive, with the location the map recorded for it (or none, as before) and
\* with its handle and component values in the slot at that location, also
\* when the create allocates a new block or a new archetype.
C36_CreateKeepsExistingEntities ==
    [][(last'.op = "create" /\ last'.res = "ok")
       => \A e \in Live :
             /\ pool_alive(generations', e)
             /\ at_throws(entity_map', e.id) = at_throws(entity_map, e.id)
             /\ ~at_throws(entity_map, e.id)
                => /\ entity_map'[e.id] = entity_map[e.id]
                   /\ InSlot(archetypes', entity_map'[e.id])
                        = InSlot(archetypes, entity_map[e.id])]_vars

\* C36 witness: a create has just allocated a second block for its archetype
\* while another live entity, one of whose components holds the value y, is
\* stored in the first block.
C36_Witness ==
    /\ last.op = "create"
    /\ last.res = "ok"
    /\ entity_map[last.e.id].mem_block_index = 1
    /\ entity_map[last.e.id].entry_index = 0
    /\ \E e \in Live \ {last.e} :
          /\ ~at_throws(entity_map, e.id)
          /\ entity_map[e.id].archetype = entity_map[last.e.id].archetype
          /\ SlotAt(archetypes, entity_map[e.id]).entity = e
          /\ \E c \in Composition(e) : written[e][c] = "y"

\* The component types of a metadata list, in iteration order.
MetaIds(data) == [i \in 1..Len(data) |-> data[i].id]

\* C37: after every insert and erase the metadata list holds no id twice and
\* its ids are the members of the bitmask; inserting a component already
\* present changes nothing, inserting an absent one appends it after the
\* entries already there, and erase removes the component's entry and keeps the
\* order of the others.
C37_InsertIdempotentInOrder ==
    [][LET old == meta_set.components_meta_data_
           new == meta_set'.components_meta_data_
           c   == last'.arg
       IN  /\ \A i \in 1..Len(new) : \A j \in 1..Len(new) : i # j => new[i].id # new[j].id
           /\ Range(MetaIds(new))
                = {n \in DOMAIN component_id :
                      component_set_contains(meta_set'.component_set_, component_id[n])}
           /\ last'.op = "meta_set_insert"
              => IF c \in Range(MetaIds(old))
                 THEN meta_set' = meta_set
                 ELSE new = Append(old, SectionMeta(c))
           /\ last'.op = "meta_set_erase"
              => new = SelectSeq(old, LAMBDA m : m.id # c)]_vars

\* C37 witness: a component whose bit is in the second word was inserted while
\* present, and is not the last entry of a list of three.
C37_Witness ==
    /\ last.op = "meta_set_insert"
    /\ last.arg = "c3"
    /\ Len(meta_set.components_meta_data_) = 3
    /\ meta_set.components_meta_data_[2].id = "c3"

====
